---- MODULE Spec2Model ----
(***************************************************************************)
(* Decision-Transformer pipeline of btr13010/transformer-based-rl:         *)
(*   - the evaluation loop and its context manager (dt_evaluation.py),     *)
(*   - get_returns, the returns-to-go computation (dt_evaluation.py),      *)
(*   - the token layout, causal mask, lane selection and tensor shapes of  *)
(*     DecisionTransformer.forward (dt_model_pretrained.py),               *)
(*   - the episode split loop of the dataset script (download_dataset.py). *)
(* Each part has its own specification over the shared variables; the      *)
(* variables of the other parts stay at their idle values.                 *)
(***************************************************************************)
EXTENDS Integers, Sequences, FiniteSets, TLC

VARIABLES
    \* ---- evaluation loop (dt_evaluation.py: experiment, make_action)
    context_len,   \* the context_len argument of make_action
    trajectory,    \* the dict of four lists
    action,        \* the local `action` of experiment
    step,          \* the local `step`
    sum_reward,    \* the local `sum_reward`
    cum_reward,    \* the local `cum_reward`
    episode,       \* the loop variable i of `for i in range(max_episodes)`
    pc,            \* position of experiment in its code
    query,         \* what make_action last built for model.forward
    hist,          \* history of the episode: what env.step was asked and gave
    \* ---- get_returns as a function of its arguments
    gr,
    \* ---- DecisionTransformer.forward
    fw,
    \* ---- download_dataset.py
    ds

vars == <<context_len, trajectory, action, step, sum_reward, cum_reward,
          episode, pc, query, hist, gr, fw, ds>>

(***************************************************************************)
(* Bounds of the model.                                                    *)
(***************************************************************************)
\* largest context_len make_action is called with
MaxContextLen == 3
\* the step cap of an episode (10000 in experiment, scaled down)
MaxSteps == 4
\* the number of episodes of a run (10 in experiment, scaled down)
MaxEpisodes == 2
\* the context_len experiment passes to make_action (30, scaled down)
RunContextLen == 2

\* rewards an environment step may return
Rewards == {0, 1}
\* np.random.randint(0, 3)
RandomActions == 0 .. 2
\* torch.multinomial over the model's action distribution
ModelActions == 0 .. 1

\* default target_return of get_returns
target_return == 200

\* longest reward list get_returns is given on its own
MaxRewards == 3
\* the entries and targets it is given
RewardInputs == {-1, 0, 1, 2}
TargetInputs == {0, 10, 200}

\* all lists over S of length at most n
SeqsUpTo(S, n) == UNION {[1 .. k -> S] : k \in 0 .. n}

Min(a, b) == IF a < b THEN a ELSE b
Max(a, b) == IF a > b THEN a ELSE b

(***************************************************************************)
(* Python list semantics.                                                  *)
(***************************************************************************)
\* s[start:] for any integer start (negative counts from the end; -0 is 0)
PySliceFrom(s, start) ==
    LET lo == IF start < 0 THEN Max(Len(s) + start, 0) ELSE Min(start, Len(s))
    IN  SubSeq(s, lo + 1, Len(s))

\* whether s[i] raises IndexError
PyIndexOk(s, i) == IF i < 0 THEN Len(s) + i >= 0 ELSE i < Len(s)

\* s[i], for an index that does not raise
PyIndex(s, i) == IF i < 0 THEN s[Len(s) + i + 1] ELSE s[i + 1]

(***************************************************************************)
(* get_returns: the nested loops, as written.                              *)
(***************************************************************************)
\* np.zeros(n)
Zeros(n) == [k \in 1 .. n |-> 0]

RECURSIVE InnerLoopInclusive(_, _, _, _)
\* the mutated inner loop runs over range(i + 1)
InnerLoopInclusive(rewards, i, j, acc) ==
    IF j > i \/ j >= Len(rewards) THEN acc
    ELSE InnerLoopInclusive(rewards, i, j + 1, acc + rewards[j + 1])

RECURSIVE InnerLoop(_, _, _, _)
\* for j in range(i): returns_to_go[i] += rewards[j]      (i, j count from 0)
InnerLoop(rewards, i, j, acc) ==
    IF j >= i THEN acc
    ELSE InnerLoop(rewards, i, j + 1, acc + rewards[j + 1])

\* the mutated last line subtracts the target from the sum
OuterBodySwapped(rewards, target, rtg, i) ==
    [rtg EXCEPT ![i + 1] = InnerLoop(rewards, i, 0, rtg[i + 1]) - target]

\* one pass of the outer loop: lines 29-31 for one i
OuterBody(rewards, target, rtg, i) ==
    [rtg EXCEPT ![i + 1] = target - InnerLoop(rewards, i, 0, rtg[i + 1])]

RECURSIVE OuterLoop(_, _, _, _)
\* for i in range(len(rewards)), from pass i on
OuterLoop(rewards, target, rtg, i) ==
    IF i >= Len(rewards) THEN rtg
    ELSE OuterLoop(rewards, target, OuterBody(rewards, target, rtg, i), i + 1)

get_returns(rewards, target) ==
    OuterLoop(rewards, target, Zeros(Len(rewards)), 0)

(***************************************************************************)
(* The trajectory and make_action.                                         *)
(***************************************************************************)
EmptyTrajectory ==
    [observations |-> <<>>, actions |-> <<>>, rewards |-> <<>>, steps |-> <<>>]

get_trajectory(t, observation, act, reward, stp) ==
    [observations |-> Append(t.observations, observation),
     actions      |-> Append(t.actions, act),
     rewards      |-> Append(t.rewards, reward),
     steps        |-> Append(t.steps, stp)]

NoQuery == [called |-> FALSE, built |-> FALSE]

\* tensor(data).reshape(1, k, ...) succeeds iff data has k entries
ReshapeOk(data, k) == Len(data) = k

\* the `if` branch: fewer observations than context_len
MakeActionShort(t, n) ==
    LET c       == Len(t.observations)
        states  == t.observations
        actions == t.actions
        rtgs    == get_returns(t.rewards, target_return)
        ok      == /\ ReshapeOk(states, c)
                   /\ ReshapeOk(actions, c - 1)
                   /\ PyIndexOk(t.steps, 0)
                   /\ ReshapeOk(rtgs, c)
    IN  [trajectory |-> t,
         raised     |-> ~ok,
         query      |-> [called |-> ok, built |-> TRUE, n |-> n,
                         states |-> states, actions |-> actions,
                         rewards |-> t.rewards,
                         timesteps |-> IF PyIndexOk(t.steps, 0)
                                       THEN PyIndex(t.steps, 0) ELSE -1,
                         rtgs |-> rtgs]]

\* lines 50-52: the lists are cut in place; steps is left alone
Truncate(t, c) ==
    [t EXCEPT !.observations = PySliceFrom(t.observations, -c),
              !.actions      = PySliceFrom(t.actions, -c + 1),
              !.rewards      = PySliceFrom(t.rewards, -c)]

\* the mutated index reads the first entry, as the `if` branch does
TimestepIndexFirst(c) == 0

\* line 55: trajectory['steps'][-context_len]
TimestepIndex(c) == -c

\* the `else` branch: at least context_len observations
MakeActionFull(t, c, n) ==
    LET t2      == Truncate(t, c)
        states  == PySliceFrom(t2.observations, -c)
        actions == PySliceFrom(t2.actions, -c + 1)
        rewards == get_returns(t2.rewards, target_return)
        rtgs    == PySliceFrom(rewards, -c)
        ok      == /\ ReshapeOk(states, c)
                   /\ ReshapeOk(actions, c - 1)
                   /\ PyIndexOk(t2.steps, TimestepIndex(c))
                   /\ ReshapeOk(rtgs, c)
    IN  [trajectory |-> t2,
         raised     |-> ~ok,
         query      |-> [called |-> ok, built |-> TRUE, n |-> n,
                         states |-> states, actions |-> actions,
                         rewards |-> t2.rewards,
                         timesteps |-> IF PyIndexOk(t2.steps, TimestepIndex(c))
                                       THEN PyIndex(t2.steps, TimestepIndex(c))
                                       ELSE -1,
                         rtgs |-> rtgs]]

\* make_action on a non-empty history (the empty one draws a random action)
make_action(t, c, n) ==
    IF Len(t.observations) < c THEN MakeActionShort(t, n)
                               ELSE MakeActionFull(t, c, n)

(***************************************************************************)
(* experiment.                                                             *)
(***************************************************************************)
\* hist records what the environment was asked and gave: per episode the
\* number of observations, of env.step calls, the rewards they returned and
\* whether a step followed a terminated = True; per run the episodes begun
\* and the rewards of all env.step calls
NoHist == [n_obs |-> 0, env_steps |-> 0, env_reward |-> 0, rewards |-> <<>>,
           term_seen |-> FALSE, step_after_term |-> FALSE,
           episodes |-> 0, env_total |-> 0]

\* the history after one more env.step call
Stepped(h, reward, terminated) ==
    [h EXCEPT !.n_obs = @ + 1,
              !.env_steps = @ + 1,
              !.env_reward = @ + reward,
              !.rewards = Append(@, reward),
              !.step_after_term = @ \/ h.term_seen,
              !.term_seen = @ \/ terminated,
              !.env_total = @ + reward]

\* the mutated exit test lets one more step through
EpisodeOverLate(terminated, stp) == terminated \/ stp > MaxSteps

\* line 129: if terminated or step >= 10000
EpisodeOver(terminated, stp) == terminated \/ stp >= MaxSteps

IdleGr == [phase |-> "idle"]
IdleFw == [phase |-> "idle"]
IdleDs == [phase |-> "idle"]

\* the evaluation loop is not running
IdleEval ==
    /\ context_len = 0
    /\ trajectory = EmptyTrajectory
    /\ action = 0
    /\ step = 0
    /\ sum_reward = 0
    /\ cum_reward = 0
    /\ episode = 0
    /\ pc = "idle"
    /\ query = NoQuery
    /\ hist = NoHist

InitEval(cs) ==
    /\ context_len \in cs
    /\ trajectory = EmptyTrajectory
    /\ action = 0
    /\ step = 0
    /\ sum_reward = 0
    /\ cum_reward = 0
    /\ episode = 0
    /\ pc = "reset"
    /\ query = NoQuery
    /\ hist = NoHist
    /\ gr = IdleGr
    /\ fw = IdleFw
    /\ ds = IdleDs

\* make_action takes context_len as an argument: every value from 1 up
Init == InitEval(1 .. MaxContextLen)

\* lines 104-106: reset, fresh trajectory, make_action on the empty history
EpisodeStart ==
    /\ pc = "reset"
    /\ trajectory' = EmptyTrajectory
    /\ \E a \in RandomActions : action' = a
    /\ query' = NoQuery
    /\ hist' = [NoHist EXCEPT !.episodes = hist.episodes + 1,
                              !.env_total = hist.env_total]
    /\ pc' = "first"
    /\ UNCHANGED <<context_len, step, sum_reward, cum_reward, episode, gr, fw, ds>>

\* lines 108-116: the first env.step; its terminated flag is not looked at
FirstStep ==
    /\ pc = "first"
    /\ \E reward \in Rewards, terminated \in BOOLEAN :
          /\ trajectory' = [trajectory EXCEPT
                               !.observations = Append(@, hist.n_obs),
                               !.rewards = Append(@, reward),
                               !.steps = Append(@, 0)]
          /\ hist' = Stepped(hist, reward, terminated)
    /\ step' = 1
    /\ sum_reward' = 0
    /\ pc' = "loop"
    /\ UNCHANGED <<context_len, action, cum_reward, episode, query, gr, fw, ds>>

\* lines 118-119: the epsilon branch
LoopRandom ==
    /\ pc = "loop"
    /\ \E a \in RandomActions : action' = a
    /\ pc' = "envstep"
    /\ UNCHANGED <<context_len, trajectory, step, sum_reward, cum_reward,
                   episode, query, hist, gr, fw, ds>>

\* lines 120-121: make_action; a failed reshape or index ends the program
LoopModel ==
    /\ pc = "loop"
    /\ LET r == make_action(trajectory, context_len, hist.n_obs)
       IN  /\ trajectory' = r.trajectory
           /\ query' = r.query
           /\ IF r.raised
              THEN pc' = "raised" /\ action' = action
              ELSE pc' = "envstep" /\ \E a \in ModelActions : action' = a
    /\ UNCHANGED <<context_len, step, sum_reward, cum_reward, episode, hist,
                   gr, fw, ds>>

\* lines 122-133: env.step, get_trajectory, the counters and the exit test
EnvStep ==
    /\ pc = "envstep"
    /\ \E reward \in Rewards, terminated \in BOOLEAN :
          /\ trajectory' = get_trajectory(trajectory, hist.n_obs, action, reward, step)
          /\ hist' = Stepped(hist, reward, terminated)
          /\ step' = step + 1
          /\ sum_reward' = sum_reward + reward
          /\ IF EpisodeOver(terminated, step')
             THEN /\ cum_reward' = cum_reward + sum_reward'
                  /\ episode' = episode + 1
                  /\ pc' = IF episode' < MaxEpisodes THEN "reset" ELSE "close"
             ELSE /\ pc' = "loop"
                  /\ UNCHANGED <<cum_reward, episode>>
    /\ query' = NoQuery
    /\ UNCHANGED <<context_len, action, gr, fw, ds>>

\* line 135: env.close()
Close ==
    /\ pc = "close"
    /\ pc' = "done"
    /\ UNCHANGED <<context_len, trajectory, action, step, sum_reward,
                   cum_reward, episode, query, hist, gr, fw, ds>>

Next ==
    \/ EpisodeStart
    \/ FirstStep
    \/ LoopRandom
    \/ LoopModel
    \/ EnvStep
    \/ Close

Spec == Init /\ [][Next]_vars

\* the run as experiment makes it: one context_len, and a program that is
\* not finished keeps executing
InitRun == InitEval({RunContextLen})

SpecRun == InitRun /\ [][Next]_vars /\ WF_vars(Next)

(***************************************************************************)
(* Properties of the evaluation loop.                                      *)
(***************************************************************************)
\* the number of entries the claimed window has after n observations
WindowLen(n) == Min(n, context_len)

\* C1 (as claimed): whenever make_action has built its inputs for the model
\* from n recorded observations, states and returns-to-go have
\* min(n, context_len) entries and actions one fewer, for every
\* context_len >= 1.
C1_QueryLengths ==
    query.built =>
        /\ Len(query.states) = WindowLen(query.n)
        /\ Len(query.rtgs) = WindowLen(query.n)
        /\ Len(query.actions) = WindowLen(query.n) - 1

RECURSIVE SumTo(_, _)
\* rewards[1] + ... + rewards[k]
SumTo(rewards, k) == IF k = 0 THEN 0 ELSE SumTo(rewards, k - 1) + rewards[k]

\* the rewards returned with the observations of the window of a query
WindowRewards(n) == PySliceFrom(hist.rewards, -WindowLen(n))

\* C4: at every model query the return-to-go at window position i is the
\* target return minus the rewards of the window positions before i (the
\* prefix sum), so the first one is the target; and for rewards 1,1,1 and
\* target 10 get_returns gives 10, 9, 8.
C4_ReturnsToGo ==
    /\ query.called =>
          /\ Len(query.rtgs) = WindowLen(query.n)
          /\ \A i \in 1 .. Len(query.rtgs) :
                query.rtgs[i] = target_return - SumTo(WindowRewards(query.n), i - 1)
    /\ get_returns(<<1, 1, 1>>, 10) = <<10, 9, 8>>

\* a query on a window that slid past the start of the episode and holds a
\* reward before its last position
C4_Witness ==
    /\ query.called
    /\ query.n > context_len
    /\ context_len >= 2
    /\ query.rtgs[Len(query.rtgs)] < target_return

\* C7 (as claimed): no env.step call follows an env.step call of the same
\* episode that returned terminated = True, the first step included.
C7_NoStepAfterTerminated == ~hist.step_after_term

\* an episode has just been reported (its locals are still in place)
EpisodeReported == pc \in {"reset", "close", "done"} /\ episode > 0

\* C8 (as claimed): the reward reported for an episode is the sum of the
\* rewards of all its env.step calls, and the cumulative reward is the sum
\* of the rewards of all env.step calls of the run.
C8_ReportedReward ==
    EpisodeReported =>
        /\ sum_reward = hist.env_reward
        /\ cum_reward = hist.env_total

\* C10: the run ends: no episode makes more than MaxSteps env.step calls,
\* the first one counted, exactly MaxEpisodes episodes are begun, and
\* env.close is reached.
C10_RunTerminates ==
    /\ [](hist.env_steps <= MaxSteps)
    /\ [](hist.episodes <= MaxEpisodes)
    /\ [](pc = "done" => hist.episodes = MaxEpisodes /\ episode = MaxEpisodes)
    /\ <>(pc = "done")

\* the run is over and its last episode ran into the step cap without the
\* environment ever signalling termination
C10_Witness ==
    /\ pc = "done"
    /\ ~hist.term_seen
    /\ hist.env_steps = MaxSteps
    /\ hist.episodes = MaxEpisodes

\* C11: at every model query the timestep passed is the step index that was
\* recorded with the oldest observation of the window passed with it: 0
\* while fewer than context_len observations exist, n - context_len from
\* then on; the steps list keeps all n entries, entry k being step k.
C11_WindowStartTimestep ==
    query.called =>
        /\ Len(trajectory.steps) = query.n
        /\ \A k \in 1 .. Len(trajectory.steps) : trajectory.steps[k] = k - 1
        /\ query.timesteps = trajectory.steps[query.states[1] + 1]
        /\ query.timesteps = IF query.n < context_len THEN 0
                              ELSE query.n - context_len

\* a query on a window of two or more observations that no longer starts at
\* the first observation of the episode
C11_Witness ==
    /\ query.called
    /\ context_len >= 2
    /\ query.n > context_len
    /\ query.timesteps >= 1
    /\ Len(query.states) = context_len

(***************************************************************************)
(* get_returns on its own: the outer loop, one pass at a time.             *)
(***************************************************************************)
InitReturns ==
    /\ IdleEval
    /\ fw = IdleFw
    /\ ds = IdleDs
    /\ \E rewards \in SeqsUpTo(RewardInputs, MaxRewards), target \in TargetInputs :
          gr = [phase |-> "loop", rewards |-> rewards, target |-> target,
                i |-> 0, returns_to_go |-> Zeros(Len(rewards))]

\* lines 28-31: one pass of `for i in range(len(rewards))`
GetReturnsPass ==
    /\ gr.phase = "loop"
    /\ gr.i < Len(gr.rewards)
    /\ gr' = [gr EXCEPT !.returns_to_go =
                            OuterBody(gr.rewards, gr.target, @, gr.i),
                        !.i = @ + 1]
    /\ UNCHANGED <<context_len, trajectory, action, step, sum_reward,
                   cum_reward, episode, pc, query, hist, fw, ds>>

\* line 32: return returns_to_go
GetReturnsReturn ==
    /\ gr.phase = "loop"
    /\ gr.i >= Len(gr.rewards)
    /\ gr' = [gr EXCEPT !.phase = "returned"]
    /\ UNCHANGED <<context_len, trajectory, action, step, sum_reward,
                   cum_reward, episode, pc, query, hist, fw, ds>>

NextReturns == GetReturnsPass \/ GetReturnsReturn

SpecReturns == InitReturns /\ [][NextReturns]_vars

NonNegative(rewards) == \A k \in 1 .. Len(rewards) : rewards[k] >= 0

\* C5: for a reward list without negative entries and any target, the list
\* get_returns returns never rises from one position to the next.
C5_NonIncreasing ==
    (gr.phase = "returned" /\ NonNegative(gr.rewards)) =>
        \A k \in 1 .. Len(gr.returns_to_go) - 1 :
            gr.returns_to_go[k + 1] <= gr.returns_to_go[k]

\* get_returns has returned for a full-length list of non-negative rewards
\* with a positive one inside, and the list falls there
C5_Witness ==
    /\ gr.phase = "returned"
    /\ NonNegative(gr.rewards)
    /\ Len(gr.rewards) = MaxRewards
    /\ \E k \in 1 .. Len(gr.returns_to_go) - 1 :
          gr.returns_to_go[k + 1] < gr.returns_to_go[k]

\* The loops agree with the prefix-sum form on every list and target, and
\* the stepwise run returns what get_returns computes.
ReturnsArePrefixSums ==
    gr.phase = "returned" =>
        /\ gr.returns_to_go = get_returns(gr.rewards, gr.target)
        /\ \A k \in 1 .. Len(gr.rewards) :
              gr.returns_to_go[k] = gr.target - SumTo(gr.rewards, k - 1)

(***************************************************************************)
(* DecisionTransformer: tensor shapes.  A shape is a tuple of sizes; Bad   *)
(* stands for the shape error torch raises.                                *)
(***************************************************************************)
\* largest context_len and window length T of a forward pass
MaxWindow == 3
\* largest batch size
MaxBatch == 2
\* largest n_blocks
MaxBlocks == 2

\* (h_dim, n_heads) of the configurations, and their state_dim and act_dim
HeadConfigs == {<<4, 2>>, <<4, 3>>, <<6, 3>>}
StateDims == {83, 84, 88, 91, 92}
ActDims == {2, 3}
\* action ids fed to embed_action
ActionIds == {0, 1}

Bad == <<-1>>

RECURSIVE Prod(_)
\* the number of elements of a shape
Prod(sh) == IF sh = <<>> THEN 1 ELSE sh[1] * Prod(Tail(sh))

\* tensor.reshape(target): the element counts must agree
Reshape(sh, target) ==
    IF sh = Bad \/ Prod(sh) # Prod(target) THEN Bad ELSE target

\* nn.Linear(n_in, n_out): acts on the last dimension
Linear(sh, n_in, n_out) ==
    IF sh = Bad \/ sh = <<>> THEN Bad
    ELSE IF sh[Len(sh)] # n_in THEN Bad
    ELSE [sh EXCEPT ![Len(sh)] = n_out]

\* nn.Embedding(n, dim): one vector per index
Embedding(sh, dim) == IF sh = Bad THEN Bad ELSE Append(sh, dim)

\* nn.Conv2d(c_in, c_out, k, stride=st, padding=0) on (B, C, H, W)
Conv2d(sh, c_in, c_out, k, st) ==
    IF sh = Bad \/ Len(sh) # 4 THEN Bad
    ELSE IF sh[2] # c_in \/ sh[3] < k \/ sh[4] < k THEN Bad
    ELSE <<sh[1], c_out, (sh[3] - k) \div st + 1, (sh[4] - k) \div st + 1>>

\* nn.Flatten(): all dimensions after the first become one
Flatten(sh) == IF sh = Bad THEN Bad ELSE <<sh[1], Prod(Tail(sh))>>

\* a + b for tensors of one shape
AddSame(a, b) == IF a = Bad \/ b = Bad \/ a # b THEN Bad ELSE a

\* torch.stack((a, b, c), dim=1) of three (B, T, h) tensors
Stack3(a, b, c) ==
    IF a = Bad \/ a # b \/ a # c \/ Len(a) # 3 THEN Bad
    ELSE <<a[1], 3, a[2], a[3]>>

\* the mutated feature extractor expects the features of another image size
EmbedStateShapeNarrow(states, cl, h_dim) ==
    Linear(Flatten(Conv2d(Conv2d(Conv2d(states, cl, 32, 8, 4), 32, 64, 4, 2),
                          64, 64, 3, 1)),
           1024, h_dim * cl)

\* embed_state (lines 106-110): three convolutions, Flatten, Linear(3136, .)
EmbedStateShape(states, cl, h_dim) ==
    Linear(Flatten(Conv2d(Conv2d(Conv2d(states, cl, 32, 8, 4), 32, 64, 4, 2),
                          64, 64, 3, 1)),
           3136, h_dim * cl)

\* embed_rtg (line 103): Linear(context_len, h_dim * context_len)
EmbedRtgShape(rtg, cl, h_dim) == Linear(rtg, cl, h_dim * cl)

\* MaskedCausalAttention.forward on (B, T, C) with the mask buffer of max_T
AttentionShape(sh, h_dim, n_heads, max_T) ==
    IF sh = Bad \/ Len(sh) # 3 THEN Bad
    ELSE LET B == sh[1]
             T == sh[2]
             C == sh[3]
             D == C \div n_heads
             qkv  == Linear(sh, h_dim, 3 * h_dim)
             q    == Reshape(<<B, T, h_dim>>, <<B, T, n_heads, D>>)
             att  == IF Min(T, max_T) = T THEN <<B, n_heads, T, T>> ELSE Bad
             y    == Reshape(<<B, n_heads, T, D>>, <<B, T, n_heads * D>>)
         IN  IF qkv = Bad \/ q = Bad \/ att = Bad THEN Bad
             ELSE Linear(y, h_dim, h_dim)

\* Block.forward: x + attn(ln_1(x)), then x + mlpf(ln_2(x))
BlockShape(sh, h_dim, n_heads, max_T) ==
    LET a == AddSame(sh, AttentionShape(sh, h_dim, n_heads, max_T))
    IN  AddSame(a, Linear(Linear(a, h_dim, 4 * h_dim), 4 * h_dim, h_dim))

(***************************************************************************)
(* DecisionTransformer: what each vector is computed from.  A vector is a  *)
(* record: tok, the token it stands for; seen, the tokens of the sequence  *)
(* it has attended to; val, the input entries it is a function of.         *)
(***************************************************************************)
LaneNames == [l \in 0 .. 2 |-> <<"r", "s", "a">>[l + 1]]

Steps(T) == 0 .. T - 1

\* embed_timestep of timestep t
TimeVal(t) == {<<"t", t, 0>>}

\* lines 155-157: the three embeddings of timestep t; embed_state and
\* embed_rtg read the whole window (its channels, its entries), embed_action
\* reads one action id
Embeddings(acts, T) ==
    [l \in 0 .. 2 |->
       [t \in Steps(T) |->
          [tok  |-> <<LaneNames[l], t>>,
           seen |-> {<<LaneNames[l], t>>},
           val  |-> TimeVal(t) \cup
                    (CASE l = 0 -> {<<"r", u, 0>> : u \in Steps(T)}
                       [] l = 1 -> {<<"s", u, 0>> : u \in Steps(T)}
                       [] l = 2 -> {<<"a", t, acts[t]>>})]]]

\* lines 161-163: stack(dim=1) gives (B, 3, T, h); reshape(B, 3T, h) reads it
\* row by row
StackReshape(e, T) == [p \in 0 .. 3 * T - 1 |-> e[p \div T][p % T]]

\* line 36: torch.tril(ones): row p attends to column q iff q <= p
Mask(p, q) == q <= p

\* a Block on the sequence: position p gathers the positions its mask row
\* lets through; LayerNorm, the MLP and the residuals act per position
BlockFlow(x) ==
    [p \in DOMAIN x |->
       [tok  |-> x[p].tok,
        seen |-> UNION {x[q].seen : q \in {q \in DOMAIN x : Mask(p, q)}},
        val  |-> UNION {x[q].val : q \in {q \in DOMAIN x : Mask(p, q)}}]]

\* line 176: reshape(B, T, 3, h).permute(0, 2, 1, 3): lanes[l][t] = h[3t + l]
Lanes(h, T) == [l \in 0 .. 2 |-> [t \in Steps(T) |-> h[3 * t + l]]]

\* the mutated action head reads the lane of the other two heads
ActionHeadInputLane2(lanes) == lanes[2]

\* line 181: predict_action(h[:,1])
ActionHeadInput(lanes) == lanes[1]

\* lines 179-180: predict_rtg(h[:,2]), predict_state(h[:,2])
ReturnHeadInput(lanes) == lanes[2]

(***************************************************************************)
(* DecisionTransformer.__init__ and forward, stage by stage.  Two passes   *)
(* run side by side on inputs that may differ in their actions only.       *)
(***************************************************************************)
InitForward ==
    /\ IdleEval
    /\ gr = IdleGr
    /\ ds = IdleDs
    /\ \E cl \in 1 .. MaxWindow, T \in 1 .. MaxWindow, B \in 1 .. MaxBatch,
          hc \in HeadConfigs, sd \in StateDims, ad \in ActDims,
          nb \in 1 .. MaxBlocks :
         \E acts \in [1 .. 2 -> [Steps(T) -> ActionIds]] :
            fw = [phase |-> "construct",
                  context_len |-> cl, h_dim |-> hc[1], n_heads |-> hc[2],
                  state_dim |-> sd, act_dim |-> ad, n_blocks |-> nb,
                  B |-> B, T |-> T, acts |-> acts,
                  shape |-> <<>>, x |-> <<>>, blocks_done |-> 0,
                  preds |-> <<>>]

fwOthers == <<context_len, trajectory, action, step, sum_reward, cum_reward,
              episode, pc, query, hist, gr, ds>>

\* lines 20-22, 120: building a Block asserts h_dim % n_heads == 0
FwConstruct ==
    /\ fw.phase = "construct"
    /\ fw' = [fw EXCEPT !.phase = IF fw.h_dim % fw.n_heads = 0
                                  THEN "embed" ELSE "assert_failed"]
    /\ UNCHANGED fwOthers

\* lines 149-165: the embeddings, the stack and its reshape, embed_ln
FwEmbed ==
    /\ fw.phase = "embed"
    /\ LET B == fw.B
           T == fw.T
           h == fw.h_dim
           cl == fw.context_len
           time == Reshape(Embedding(<<B, T>>, h), <<B, T, h>>)
           st == AddSame(Reshape(EmbedStateShape(<<B, T, fw.state_dim, fw.state_dim>>,
                                                 cl, h), <<B, T, h>>), time)
           ac == AddSame(Reshape(Embedding(<<B, T>>, h), <<B, T, h>>), time)
           rt == AddSame(Reshape(EmbedRtgShape(<<B, T>>, cl, h), <<B, T, h>>), time)
           sh == Reshape(Stack3(rt, st, ac), <<B, 3 * T, h>>)
       IN  IF sh = Bad
           THEN fw' = [fw EXCEPT !.phase = "shape_error"]
           ELSE fw' = [fw EXCEPT
                         !.phase = "blocks",
                         !.shape = sh,
                         !.x = [k \in 1 .. 2 |->
                                  StackReshape(Embeddings(fw.acts[k], T), T)]]
    /\ UNCHANGED fwOthers

\* lines 168-169: one transformer block
FwBlock ==
    /\ fw.phase = "blocks"
    /\ fw.blocks_done < fw.n_blocks
    /\ LET sh == BlockShape(fw.shape, fw.h_dim, fw.n_heads, 3 * fw.context_len)
       IN  IF sh = Bad
           THEN fw' = [fw EXCEPT !.phase = "shape_error"]
           ELSE fw' = [fw EXCEPT !.shape = sh,
                                 !.x = [k \in 1 .. 2 |-> BlockFlow(fw.x[k])],
                                 !.blocks_done = @ + 1]
    /\ UNCHANGED fwOthers

\* lines 170-185: ln_f, the lanes and the three prediction heads
FwHeads ==
    /\ fw.phase = "blocks"
    /\ fw.blocks_done = fw.n_blocks
    /\ LET B == fw.B
           T == fw.T
           h == fw.h_dim
           sd == fw.state_dim
           l4 == Reshape(fw.shape, <<B, T, 3, h>>)
           lane == IF l4 = Bad THEN Bad ELSE <<B, T, h>>
           ret == Linear(lane, h, 1)
           sta == Reshape(Linear(lane, h, sd * sd), <<B, T, sd, sd>>)
           act == Linear(lane, h, fw.act_dim)
       IN  IF ret = Bad \/ sta = Bad \/ act = Bad
           THEN fw' = [fw EXCEPT !.phase = "shape_error"]
           ELSE fw' = [fw EXCEPT
                         !.phase = "returned",
                         !.shape = [state_preds |-> sta, action_preds |-> act,
                                    return_preds |-> ret],
                         !.preds = [k \in 1 .. 2 |->
                            LET lanes == Lanes(fw.x[k], T)
                            IN  [action_preds |-> ActionHeadInput(lanes),
                                 return_preds |-> ReturnHeadInput(lanes),
                                 state_preds  |-> ReturnHeadInput(lanes)]]]
    /\ UNCHANGED fwOthers

NextForward == FwConstruct \/ FwEmbed \/ FwBlock \/ FwHeads

SpecForward == InitForward /\ [][NextForward]_vars

(***************************************************************************)
(* Properties of the forward pass.                                         *)
(***************************************************************************)
\* the two passes were given the same actions before timestep t
SameActionsBefore(t) ==
    \A u \in Steps(fw.T) : u < t => fw.acts[1][u] = fw.acts[2][u]

\* C2: two forward passes whose inputs differ only in the actions at
\* timesteps >= t give the same action prediction at t, for every t < T.
C2_Causality ==
    fw.phase = "returned" =>
        \A t \in Steps(fw.T) :
            SameActionsBefore(t) =>
                fw.preds[1].action_preds[t].val = fw.preds[2].action_preds[t].val

\* two passes over a window of at least two steps returned; their actions
\* differ at the last timestep only, and a later action prediction depends
\* on the first action
C2_Witness ==
    /\ fw.phase = "returned"
    /\ fw.T >= 2
    /\ fw.acts[1][fw.T - 1] # fw.acts[2][fw.T - 1]
    /\ SameActionsBefore(fw.T - 1)
    /\ \E t \in Steps(fw.T) :
          <<"a", 0, fw.acts[1][0]>> \in fw.preds[1].action_preds[t].val

\* the tokens r_0..r_t, s_0..s_t and a_0..a_(n-1)
Tokens(t, n) ==
    {<<"r", u>> : u \in 0 .. t} \cup {<<"s", u>> : u \in 0 .. t}
        \cup {<<"a", u>> : u \in 0 .. n - 1}

\* C3 (as claimed): the sequence given to the blocks holds r_t at position
\* 3t, s_t at 3t+1 and a_t at 3t+2; the vector the action head reads at t
\* has attended to exactly r_0..r_t, s_0..s_t, a_0..a_(t-1), and the one the
\* return and state heads read has attended to a_t as well.
C3_Interleaved ==
    /\ fw.phase \in {"blocks", "returned"} =>
          \A t \in Steps(fw.T) :
              /\ fw.x[1][3 * t].tok = <<"r", t>>
              /\ fw.x[1][3 * t + 1].tok = <<"s", t>>
              /\ fw.x[1][3 * t + 2].tok = <<"a", t>>
    /\ fw.phase = "returned" =>
          \A t \in Steps(fw.T) :
              /\ fw.preds[1].action_preds[t].seen = Tokens(t, t)
              /\ fw.preds[1].return_preds[t].seen = Tokens(t, t + 1)
              /\ fw.preds[1].state_preds[t].seen = Tokens(t, t + 1)

\* the forward pass was entered with embed_dim divisible by n_heads
Constructed ==
    fw.phase \in {"embed", "blocks", "returned", "shape_error"}

\* the shapes of the three results
ResultShapes ==
    /\ fw.shape.state_preds = <<fw.B, fw.T, fw.state_dim, fw.state_dim>>
    /\ fw.shape.action_preds = <<fw.B, fw.T, fw.act_dim>>
    /\ fw.shape.return_preds = <<fw.B, fw.T, 1>>

\* C9 (as claimed): with embed_dim divisible by n_heads, forward raises no
\* shape error for any batch size and window length, and its results have
\* the shapes (B,T,state_dim,state_dim), (B,T,act_dim) and (B,T,1).
C9_AnyWindow ==
    Constructed =>
        /\ fw.phase # "shape_error"
        /\ fw.phase = "returned" => ResultShapes

\* C9 (amended): the same, for a window length equal to context_len and a
\* state_dim from 84 to 91, the image sizes the convolutions reduce to the
\* 3136 features embed_state expects.
C9_MatchingWindow ==
    (/\ fw.phase \notin {"idle", "construct"}
     /\ fw.h_dim % fw.n_heads = 0
     /\ fw.T = fw.context_len
     /\ fw.state_dim \in 84 .. 91) =>
        /\ fw.phase \in {"embed", "blocks", "returned"}
        /\ fw.phase = "returned" => ResultShapes

\* a forward pass returned for a batch of two, a window of two or more steps
\* and the largest state_dim that fits
C9_Witness ==
    /\ fw.phase = "returned"
    /\ fw.B = 2
    /\ fw.T >= 2
    /\ fw.state_dim = 91
    /\ ResultShapes

(***************************************************************************)
(* download_dataset.py: the episode split loop over one dataset.  Entry i  *)
(* of the observations and actions arrays is identified by its index.      *)
(***************************************************************************)
\* largest number of samples N of a dataset
MaxSamples == 4
\* the step count that ends an episode when the dataset has no timeouts
EpisodeCutoff == 4096
\* rewards of the samples
SampleRewards == {0, 1}

\* lines 52-56, 111-115: observations[i+1], or observations[i] when numpy
\* raises IndexError
NextObservation(i, N) == IF i + 1 < N THEN i + 1 ELSE i

\* lines 41, 100: for i in range(N//2)
LoopEnd(N) == N \div 2

InitDataset ==
    /\ IdleEval
    /\ gr = IdleGr
    /\ fw = IdleFw
    /\ \E N \in 1 .. MaxSamples, mix \in BOOLEAN, use_timeouts \in BOOLEAN :
         \E terminals \in [0 .. N - 1 -> BOOLEAN],
            timeouts \in [0 .. N - 1 -> BOOLEAN],
            rewards \in [0 .. N - 1 -> SampleRewards] :
            /\ (~use_timeouts => \A k \in 0 .. N - 1 : ~timeouts[k])
            /\ ds = [phase |-> "loop", mix_games |-> mix, N |-> N,
                     terminals |-> terminals, use_timeouts |-> use_timeouts,
                     timeouts |-> timeouts, rewards |-> rewards,
                     i |-> 0, episode_step |-> 0, sum_reward |-> 0,
                     data_ |-> <<>>, paths |-> <<>>]

dsOthers == <<context_len, trajectory, action, step, sum_reward, cum_reward,
              episode, pc, query, hist, gr, fw>>

\* lines 128-131: the mixed-games branch divides the rewards of the episode
\* by their sum (kept as the pair reward, sum)
EpisodeData(data, mix, total) ==
    IF mix THEN [k \in 1 .. Len(data) |->
                   [data[k] EXCEPT !.rewards = <<data[k].rewards, total>>]]
    ELSE data

\* lines 42-68, 101-135: one pass of the loop over the samples
DsSample ==
    /\ ds.phase = "loop"
    /\ ds.i < LoopEnd(ds.N)
    /\ LET i == ds.i
           done_bool == ds.terminals[i]
           final_timestep == IF ds.use_timeouts THEN ds.timeouts[i]
                             ELSE ds.episode_step = EpisodeCutoff
           sample == [observations |-> i,
                      next_observations |-> NextObservation(i, ds.N),
                      actions |-> i,
                      rewards |-> ds.rewards[i],
                      terminals |-> ds.terminals[i]]
           data == Append(ds.data_, sample)
           total == IF ds.mix_games THEN ds.sum_reward + ds.rewards[i] ELSE 0
       IN  IF done_bool \/ final_timestep
           THEN ds' = [ds EXCEPT
                         !.paths = Append(@, EpisodeData(data, ds.mix_games, total)),
                         !.data_ = <<>>,
                         !.sum_reward = 0,
                         !.episode_step = 1,
                         !.i = i + 1]
           ELSE ds' = [ds EXCEPT
                         !.data_ = data,
                         !.sum_reward = total,
                         !.episode_step = @ + 1,
                         !.i = i + 1]
    /\ UNCHANGED dsOthers

\* lines 75-76, 141-142: the loop is over and paths is written out
DsDump ==
    /\ ds.phase = "loop"
    /\ ds.i >= LoopEnd(ds.N)
    /\ ds' = [ds EXCEPT !.phase = "dumped"]
    /\ UNCHANGED dsOthers

NextDataset == DsSample \/ DsDump

SpecDataset == InitDataset /\ [][NextDataset]_vars

\* the samples of the episode records written out
Emitted == UNION {{ds.paths[e][k] : k \in 1 .. Len(ds.paths[e])} :
                    e \in 1 .. Len(ds.paths)}

\* the samples the loop has gone through
Processed == Emitted \cup {ds.data_[k] : k \in 1 .. Len(ds.data_)}

\* C6 (as claimed): when the terminal sample of a dataset of N samples is
\* at index N-1, that sample is emitted in an episode record with its own
\* observation as next observation, and every other processed sample i has
\* observation i+1 as next observation.
C6_LastSampleFallback ==
    (ds.phase = "dumped" /\ ds.terminals[ds.N - 1]) =>
        /\ \E smp \in Emitted :
              /\ smp.observations = ds.N - 1
              /\ smp.next_observations = ds.N - 1
        /\ \A smp \in Processed :
              smp.observations # ds.N - 1 =>
                  smp.next_observations = smp.observations + 1

====
